---------------------------- MODULE Spec2Model ----------------------------
(***************************************************************************)
(* Model of ephemeris/sleep.py: galaxy_wait, SleepCondition and main.      *)
(*                                                                         *)
(* One call of galaxy_wait is followed statement by statement (run.pc is   *)
(* the position of the call), so that cancel(), which an embedding caller  *)
(* issues from another thread, interleaves with the loop at every point.   *)
(* A second call, twin, is driven in lock step with the same parameters,   *)
(* the same cancellation flag and the same GET outcomes, except that where *)
(* the first call gets a retried failure the twin may get a retried        *)
(* failure of another kind.  A third call, mirror, is driven in lock step   *)
(* with the same parameters, flag and GET outcomes and verbose negated.    *)
(***************************************************************************)
EXTENDS Integers, Sequences, FiniteSets, TLC

\* ------------------------------------------------------------------ bounds
\* Largest --timeout value explored (the values are -1 .. MaxTimeout).
MaxTimeout == 3
\* With timeout = 0 the loop is unbounded: at most MaxGets GETs are explored.
MaxGets == 4

\* ------------------------------------------------------- program constants
DEFAULT_SLEEP_WAIT == 1

\* ----------------------------------------------------------------- inputs
\* Strings are tuples of one-character strings, so that concatenation and
\* the characters of the result are what the code produces.
ApiVersionPath == <<"/", "a", "p", "i", "/", "v", "e", "r", "s", "i", "o", "n">>

Urls == { <<"h">>, <<"h", "/">> }

\* An optional string: <<>> is None, <<s>> is the string s.
None == <<>>
Some(s) == <<s>>
ApiKeys == { None, Some(<<>>), Some(<<"k", "=", "v">>) }

Timeouts == (0 - 1) .. MaxTimeout

\* Who calls galaxy_wait: main (the CLI), or an embedding caller.
Callers == { "main", "embed" }
\* The sleep_condition argument: "None" (the default), or "given": an object
\* the caller built with SleepCondition() and keeps a reference to.
SleepConditionArgs == { "None", "given" }

\* ----------------------------------------------------- outcomes of one GET
\* requests.get either raises or returns a response; result.json() parses
\* the body or raises ValueError.  Body shapes: "text" is no JSON; the others
\* are JSON values: an object with the key version_major, an object without
\* it, an array, a number, null.
Bodies == { "text", "obj_vm", "obj", "array", "number", "null" }
Statuses == { 200, 403, 500 }

NoResult == [kind |-> "none", status |-> 0, body |-> "text"]
ConnectionError == [kind |-> "ConnectionError", status |-> 0, body |-> "text"]
\* Any requests exception that is no ConnectionError (TooManyRedirects,
\* ChunkedEncodingError, ReadTimeout, ...).
RequestException == [kind |-> "RequestException", status |-> 0, body |-> "text"]
Http(s, b) == [kind |-> "http", status |-> s, body |-> b]

Responses ==
    { ConnectionError, RequestException }
    \cup { Http(403, b) : b \in { "text", "obj_vm" } }
    \cup { Http(s, b) : s \in Statuses \ { 403 }, b \in Bodies }

\* result.json() returns (the body is JSON).
ParsesAsJson(resp) == resp.kind = "http" /\ resp.body # "text"

\* The GET outcome is a non-403 response whose body parses as JSON.
IsSuccess(resp) == resp.kind = "http" /\ resp.status # 403 /\ ParsesAsJson(resp)

\* The three outcomes the loop retries.
IsConnectionFailure(resp) == resp.kind = "ConnectionError"
Is403(resp) == resp.kind = "http" /\ resp.status = 403
IsNonJson(resp) == resp.kind = "http" /\ resp.status # 403 /\ ~ParsesAsJson(resp)
IsFailure(resp) == IsConnectionFailure(resp) \/ Is403(resp) \/ IsNonJson(resp)

\* result['version_major'] evaluates without raising: result is a dict that
\* has the key.  A dict without it raises KeyError; a list, a number or None
\* raises TypeError.
HasVersionMajor(resp) == resp.body = "obj_vm"

VARIABLES
    galaxy_url,       \* parameter
    verbose,          \* parameter
    timeout,          \* parameter
    api_key,          \* parameter
    caller,           \* who calls galaxy_wait
    sleep_condition,  \* the argument: "None" or "given"
    version_url,      \* local of galaxy_wait; <<>> before the call
    sleep,            \* the field SleepCondition.sleep
    run,              \* the call: position, locals, what it wrote, its result
    twin,             \* the second call, in lock step
    mirror,           \* the call with verbose negated, in lock step
    exit_code         \* the process exit status of main: None, or Some(code)

vars == << galaxy_url, verbose, timeout, api_key, caller, sleep_condition,
           version_url, sleep, run, twin, mirror, exit_code >>

params == << galaxy_url, verbose, timeout, api_key, caller, sleep_condition >>

\* -------------------------------------------------- the state of one call
\* pc      position: "start" (not yet called), "head" (line 64), "get"
\*         (line 66, before the call of requests.get), "inflight" (inside
\*         requests.get), "inc" (line 86), "check" (line 89), "notice"
\*         (line 90), "return_false" (line 91), "sleep" (line 93),
\*         "return_true" (line 95), "done" (returned), "raised" (an
\*         exception left the function)
\* count   the local count
\* cond    the value the last evaluation of the while condition read
\* result  the outcome of the last GET
\* ret     the value returned
\* exc     the exception that left the function
\* stdout, stderr   the number of writes to each stream
\* gets    the number of calls of requests.get
\* url     the argument of the last call of requests.get
\* sleeps  the seconds spent in time.sleep, DEFAULT_SLEEP_WAIT a call
InitRun ==
    [ pc |-> "start", count |-> 0, cond |-> "unread", result |-> NoResult,
      ret |-> "none", exc |-> "none", stdout |-> 0, stderr |-> 0,
      gets |-> 0, url |-> <<>>, sleeps |-> 0 ]

pc == run.pc
count == run.count
result == run.result
ret == run.ret

BoolStr(b) == IF b THEN "True" ELSE "False"
Wrote(b) == IF b THEN 1 ELSE 0

\* VersionUrl with "is not None" for the truth test of line 56.
VersionUrlIfNotNone(url, key) ==
    IF key # None
    THEN (url \o ApiVersionPath) \o <<"?">> \o key[1]
    ELSE url \o ApiVersionPath

\* Lines 55-59: the request target.  An empty api_key is false at line 56.
VersionUrl(url, key) ==
    IF key # None /\ key[1] # <<>>
    THEN (url \o ApiVersionPath) \o <<"?">> \o key[1]
    ELSE url \o ApiVersionPath

\* Lines 55-63: the body of galaxy_wait up to the loop.
Enter(r) == [r EXCEPT !.count = 0, !.pc = "head"]

\* LoopTest with the flag ignored: the loop is entered whatever was read.
LoopTestIgnoresFlag(r, flag) ==
    [r EXCEPT !.cond = BoolStr(flag), !.pc = "get"]

\* Line 64 (and the fall through to line 95): the while condition reads the
\* flag.
LoopTest(r, flag) ==
    [r EXCEPT !.cond = BoolStr(flag),
              !.pc = IF flag THEN "get" ELSE "return_true"]

\* Line 66: requests.get is called.
Get(r) == [r EXCEPT !.gets = @ + 1, !.url = version_url, !.pc = "inflight"]

\* OnConnectionError writing its message without looking at verbose.
OnConnectionErrorLoud(r, resp, v) ==
    [r EXCEPT !.result = resp, !.stdout = @ + 1, !.pc = "inc"]

\* Lines 82-85: requests.get raised ConnectionError.
OnConnectionError(r, resp, v) ==
    [r EXCEPT !.result = resp, !.stdout = @ + Wrote(v), !.pc = "inc"]

\* Lines 65, 82: requests.get raised an exception no handler matches.
OnRequestException(r, resp) ==
    [r EXCEPT !.result = resp, !.exc = "RequestException", !.pc = "raised"]

\* On403 with a 403 taken for an answer: the loop is left as on success.
On403AsSuccess(r, resp, v) ==
    [r EXCEPT !.result = resp, !.stdout = @ + Wrote(v), !.pc = "return_true"]

\* Lines 67-70: status 403.
On403(r, resp, v) ==
    [r EXCEPT !.result = resp, !.stdout = @ + Wrote(v), !.pc = "inc"]

\* OnNonJson that skips line 86 (as a continue in the handler would).
OnNonJsonNotCounted(r, resp, v) ==
    [r EXCEPT !.result = resp, !.stdout = @ + Wrote(v), !.pc = "check"]

\* Lines 72-73, 78-81: result.json() raised ValueError.
OnNonJson(r, resp, v) ==
    [r EXCEPT !.result = resp, !.stdout = @ + Wrote(v), !.pc = "inc"]

\* Lines 72-77: result.json() returned.  The verbose write reads
\* result['version_major'], which raises KeyError or TypeError (neither is
\* caught: line 78 catches ValueError, line 82 ConnectionError); otherwise
\* break leaves the loop for line 95.
OnJson(r, resp, v) ==
    IF v /\ ~HasVersionMajor(resp)
    THEN [r EXCEPT !.result = resp,
                   !.exc = IF resp.body = "obj" THEN "KeyError" ELSE "TypeError",
                   !.pc = "raised"]
    ELSE [r EXCEPT !.result = resp, !.stdout = @ + Wrote(v),
                   !.pc = "return_true"]

\* Lines 66-85: what the loop body does with the outcome of the GET.
Handle(r, resp, v) ==
    CASE resp.kind = "ConnectionError" -> OnConnectionError(r, resp, v)
      [] resp.kind = "RequestException" -> OnRequestException(r, resp)
      [] Is403(resp) -> On403(r, resp, v)
      [] IsSuccess(resp) -> OnJson(r, resp, v)
      [] OTHER -> OnNonJson(r, resp, v)

\* Inc going on to the pause, the timeout check coming after it.
IncThenSleep(r) == [r EXCEPT !.count = @ + 1, !.pc = "sleep"]

\* Line 86.
Inc(r) == [r EXCEPT !.count = @ + 1, !.pc = "check"]

\* TimedOut with >= for >.
TimedOutOffByOne(r, t) == t # 0 /\ r.count >= t

\* Line 89.
TimedOut(r, t) == t # 0 /\ r.count > t

\* Check with the flag looked at before the timeout.
CheckFlagFirst(r, t) ==
    [r EXCEPT !.pc = IF ~sleep THEN "return_true"
                     ELSE IF TimedOut(r, t) THEN "notice" ELSE "sleep"]

Check(r, t) == [r EXCEPT !.pc = IF TimedOut(r, t) THEN "notice" ELSE "sleep"]

\* Line 90.
Notice(r) == [r EXCEPT !.stderr = @ + 1, !.pc = "return_false"]

\* Line 91.
ReturnFalse(r) == [r EXCEPT !.ret = "False", !.pc = "done"]

\* Sleep with the pause left out.
SleepSkipped(r) == [r EXCEPT !.pc = "head"]

\* Line 93.
Sleep(r) == [r EXCEPT !.sleeps = @ + DEFAULT_SLEEP_WAIT, !.pc = "head"]

\* Line 95.
ReturnTrue(r) == [r EXCEPT !.ret = "True", !.pc = "done"]

\* The twin takes the step of its own position.  resp is the outcome of its
\* GET, read only while its GET is in flight.
Advance(r, flag, resp, v, t) ==
    CASE r.pc = "start" -> Enter(r)
      [] r.pc = "head" -> LoopTest(r, flag)
      [] r.pc = "get" -> Get(r)
      [] r.pc = "inflight" -> Handle(r, resp, v)
      [] r.pc = "inc" -> Inc(r)
      [] r.pc = "check" -> Check(r, t)
      [] r.pc = "notice" -> Notice(r)
      [] r.pc = "return_false" -> ReturnFalse(r)
      [] r.pc = "sleep" -> Sleep(r)
      [] r.pc = "return_true" -> ReturnTrue(r)
      [] OTHER -> r

\* The outcomes the twin may get where the call gets resp: the same outcome,
\* or, for a retried failure, a retried failure of any kind.
TwinResponses(resp) ==
    IF IsFailure(resp) THEN { f \in Responses : IsFailure(f) } ELSE { resp }

\* ------------------------------------------------------------------- Init
Init ==
    /\ galaxy_url \in Urls
    /\ verbose \in BOOLEAN
    /\ timeout \in Timeouts
    /\ api_key \in ApiKeys
    /\ caller \in Callers
    /\ sleep_condition \in SleepConditionArgs
    /\ caller = "main" => sleep_condition = "None"
    /\ version_url = <<>>
    /\ sleep = TRUE
    /\ run = InitRun
    /\ twin = InitRun
    /\ mirror = InitRun
    /\ exit_code = None

\* ---------------------------------------------------------------- actions
\* cancel() flipping the flag instead of clearing it.
CancelToggles ==
    /\ sleep_condition = "given"
    /\ sleep' = ~sleep
    /\ UNCHANGED << params, version_url, run, twin, mirror, exit_code >>

\* SleepCondition.cancel, lines 49-50, called by whoever holds the object.
Cancel ==
    /\ sleep_condition = "given"
    /\ sleep' = FALSE
    /\ UNCHANGED << params, version_url, run, twin, mirror, exit_code >>

\* Lines 53-63.  With sleep_condition None a new SleepCondition is built
\* (lines 46-47, 60-61).
Call ==
    /\ pc = "start"
    /\ version_url' = VersionUrl(galaxy_url, api_key)
    /\ sleep' = IF sleep_condition = "None" THEN TRUE ELSE sleep
    /\ run' = Enter(run)
    /\ twin' = Advance(twin, sleep, NoResult, verbose, timeout)
    /\ mirror' = Advance(mirror, sleep, NoResult, ~verbose, timeout)
    /\ UNCHANGED << params, exit_code >>

LoopHead ==
    /\ pc = "head"
    /\ run' = LoopTest(run, sleep)
    /\ twin' = Advance(twin, sleep, NoResult, verbose, timeout)
    /\ mirror' = Advance(mirror, sleep, NoResult, ~verbose, timeout)
    /\ UNCHANGED << params, version_url, sleep, exit_code >>

StartGet ==
    /\ pc = "get"
    /\ timeout = 0 => run.gets < MaxGets
    /\ run' = Get(run)
    /\ twin' = Advance(twin, sleep, NoResult, verbose, timeout)
    /\ mirror' = Advance(mirror, sleep, NoResult, ~verbose, timeout)
    /\ UNCHANGED << params, version_url, sleep, exit_code >>

\* requests.get ends with outcome resp, and lines 66-85 handle it.
Respond(resp) ==
    /\ pc = "inflight"
    /\ run' = Handle(run, resp, verbose)
    /\ \E resp2 \in TwinResponses(resp) :
          twin' = Advance(twin, sleep, resp2, verbose, timeout)
    /\ mirror' = Advance(mirror, sleep, resp, ~verbose, timeout)
    /\ UNCHANGED << params, version_url, sleep, exit_code >>

GetConnectionError ==
    \E resp \in Responses : IsConnectionFailure(resp) /\ Respond(resp)

GetRequestException ==
    \E resp \in Responses : resp.kind = "RequestException" /\ Respond(resp)

Get403 == \E resp \in Responses : Is403(resp) /\ Respond(resp)

GetNonJson == \E resp \in Responses : IsNonJson(resp) /\ Respond(resp)

GetJson == \E resp \in Responses : IsSuccess(resp) /\ Respond(resp)

Increment ==
    /\ pc = "inc"
    /\ run' = Inc(run)
    /\ twin' = Advance(twin, sleep, NoResult, verbose, timeout)
    /\ mirror' = Advance(mirror, sleep, NoResult, ~verbose, timeout)
    /\ UNCHANGED << params, version_url, sleep, exit_code >>

TimeoutCheck ==
    /\ pc = "check"
    /\ run' = Check(run, timeout)
    /\ twin' = Advance(twin, sleep, NoResult, verbose, timeout)
    /\ mirror' = Advance(mirror, sleep, NoResult, ~verbose, timeout)
    /\ UNCHANGED << params, version_url, sleep, exit_code >>

WriteNotice ==
    /\ pc = "notice"
    /\ run' = Notice(run)
    /\ twin' = Advance(twin, sleep, NoResult, verbose, timeout)
    /\ mirror' = Advance(mirror, sleep, NoResult, ~verbose, timeout)
    /\ UNCHANGED << params, version_url, sleep, exit_code >>

DoReturnFalse ==
    /\ pc = "return_false"
    /\ run' = ReturnFalse(run)
    /\ twin' = Advance(twin, sleep, NoResult, verbose, timeout)
    /\ mirror' = Advance(mirror, sleep, NoResult, ~verbose, timeout)
    /\ UNCHANGED << params, version_url, sleep, exit_code >>

DoSleep ==
    /\ pc = "sleep"
    /\ run' = Sleep(run)
    /\ twin' = Advance(twin, sleep, NoResult, verbose, timeout)
    /\ mirror' = Advance(mirror, sleep, NoResult, ~verbose, timeout)
    /\ UNCHANGED << params, version_url, sleep, exit_code >>

DoReturnTrue ==
    /\ pc = "return_true"
    /\ run' = ReturnTrue(run)
    /\ twin' = Advance(twin, sleep, NoResult, verbose, timeout)
    /\ mirror' = Advance(mirror, sleep, NoResult, ~verbose, timeout)
    /\ UNCHANGED << params, version_url, sleep, exit_code >>

\* main, lines 110-111: galaxy_wait returned.
ExitCode(alive) == IF alive = "True" THEN 0 ELSE 1

MainExit ==
    /\ caller = "main"
    /\ exit_code = None
    /\ pc = "done"
    /\ exit_code' = Some(ExitCode(ret))
    /\ UNCHANGED << params, version_url, sleep, run, twin, mirror >>

\* main, lines 104-109, 115: the exception leaves main too, and the
\* interpreter ends the process with status 1.
MainCrash ==
    /\ caller = "main"
    /\ exit_code = None
    /\ pc = "raised"
    /\ exit_code' = Some(1)
    /\ UNCHANGED << params, version_url, sleep, run, twin, mirror >>

\* The call has ended and the mirror call has not: the mirror goes on by
\* itself (it is past its last GET, or it would have ended with the call).
Ended(r) == r.pc \in { "done", "raised" }

MirrorFinish ==
    /\ Ended(run)
    /\ ~Ended(mirror)
    /\ mirror' = Advance(mirror, sleep, NoResult, ~verbose, timeout)
    /\ UNCHANGED << params, version_url, sleep, run, twin, exit_code >>

Next ==
    \/ Cancel
    \/ Call
    \/ LoopHead
    \/ StartGet
    \/ GetConnectionError
    \/ GetRequestException
    \/ Get403
    \/ GetNonJson
    \/ GetJson
    \/ Increment
    \/ TimeoutCheck
    \/ WriteNotice
    \/ DoReturnFalse
    \/ DoSleep
    \/ DoReturnTrue
    \/ MainExit
    \/ MainCrash
    \/ MirrorFinish

Spec == Init /\ [][Next]_vars

\* ------------------------------------------------------------ the claims
\* Positions inside the loop, and positions after it was left.
InLoop == pc \in { "head", "get", "inflight", "inc", "check", "sleep" }
LeftLoop == pc \in { "notice", "return_false", "return_true", "done", "raised" }

\* C1: the first non-403 response whose body parses as JSON, whatever its
\* shape and whatever verbose is, makes galaxy_wait return True in that
\* iteration: once such a response is the outcome of the GET, the call is at
\* its return True or has returned True, and nothing else.
C1_FirstJsonReturnsTrue ==
    IsSuccess(result) =>
        /\ pc \in { "return_true", "done" }
        /\ pc = "done" => ret = "True"
        /\ count = run.gets - 1

\* C2: with timeout = N > 0, galaxy_wait returns False after exactly N+1
\* GETs and never after N or fewer: the notice and the False return are
\* reached only with N+1 GETs and count = N+1, a call that ended with the flag
\* still true and every GET a retried failure returned False, the pause of
\* an iteration is reached only with count <= N, and from the check of line
\* 89 the call goes to the pause exactly when count <= N.
C2_FalseAfterExactlyNPlus1 ==
    /\ [](timeout > 0 =>
            /\ (pc \in { "notice", "return_false" } \/ ret = "False") =>
                   (run.gets = timeout + 1 /\ count = timeout + 1)
            /\ (pc = "done" /\ sleep /\ count = run.gets) => ret = "False"
            /\ pc = "sleep" => count <= timeout
            /\ run.gets <= timeout + 1)
    /\ [][(timeout > 0 /\ pc = "check" /\ pc' # "check") =>
            /\ count <= timeout => pc' = "sleep"
            /\ count > timeout => pc' = "notice"]_vars

C2_Witness ==
    /\ timeout = 2 /\ sleep /\ ret = "False"
    /\ run.gets = 3 /\ count = 3 /\ run.sleeps = 2

\* C3: with timeout = 0 galaxy_wait never returns False, and the loop is
\* left only by a non-403 JSON response or by the flag having been read
\* false.
C3_ZeroTimeoutNeverFalse ==
    timeout = 0 =>
        /\ ret # "False"
        /\ pc \notin { "notice", "return_false" }
        /\ LeftLoop => (IsSuccess(result) \/ run.cond = "False")

\* C4: no exception leaves galaxy_wait: the call ends only by returning.
C4_NoExceptionEscapes == pc # "raised" /\ run.exc = "none"

\* C5: True is returned only in an iteration that received a non-403 JSON
\* response, and False only with timeout # 0 and count > timeout; leaving the
\* loop on the flag does not return True.
C5_TrueOnlyOnSuccess ==
    /\ ret = "True" => IsSuccess(result)
    /\ ret = "False" => (timeout # 0 /\ count > timeout)

\* C5 as amended: True is returned either in an iteration that received a
\* non-403 JSON response or after the while condition read the flag false;
\* False only with timeout # 0 and count > timeout.
C5_TrueOnSuccessOrCancel ==
    /\ ret = "True" =>
           \/ IsSuccess(result) /\ run.cond = "True" /\ run.gets = count + 1
           \/ run.cond = "False" /\ ~sleep /\ run.gets = count
    /\ ret = "False" => (timeout # 0 /\ count > timeout)

C5_Witness ==
    /\ ret = "True" /\ run.cond = "False"
    /\ run.gets = 2 /\ IsFailure(result)

\* C6: when k failed attempts are followed by a non-403 JSON response, the
\* call ends by returning True with count = k.
C6_CountIsFailuresBeforeSuccess ==
    (IsSuccess(result) /\ pc \in { "done", "raised" }) =>
        (ret = "True" /\ count = run.gets - 1)

\* C7: the call and its twin, which differ only in the kind of failure at
\* each failed attempt, are at the same position with the same count, the
\* same numbers of GETs and pauses, the same notice and the same return
\* value; and every failed attempt of any of the three kinds is counted
\* once and leaves the loop only through the timeout check.
C7_FailureKindsInterchangeable ==
    /\ twin.pc = pc /\ twin.count = count /\ twin.ret = ret
    /\ twin.gets = run.gets /\ twin.sleeps = run.sleeps
    /\ twin.stderr = run.stderr /\ twin.cond = run.cond
    /\ IsFailure(result) <=> IsFailure(twin.result)
    /\ pc \in { "inflight", "inc" } => run.gets = count + 1
    /\ pc \in { "head", "get", "check", "sleep", "notice", "return_false" } =>
           run.gets = count
    /\ (IsFailure(result) /\ LeftLoop) =>
           (TimedOut(run, timeout) \/ run.cond = "False")

C7_Witness ==
    /\ pc = "done" /\ ret = "False" /\ count = 3
    /\ Is403(result) /\ IsConnectionFailure(twin.result)

\* C8: no GET is started in a state where the flag is already false.
C8_NoGetOnceFlagFalse == [][run.gets' # run.gets => sleep]_vars

\* C8 as amended: a GET is started only in an iteration whose while
\* condition read the flag true (a cancel() after that read does not stop
\* that iteration's GET); the value read changes only at the loop head;
\* cancel() changes nothing of the call; and a GET in flight ends only with
\* its outcome being handled.
C8_FlagReadAtLoopHeadOnly ==
    /\ [](pc \in { "get", "inflight" } => run.cond = "True")
    /\ [][/\ run.gets' # run.gets => (pc = "get" /\ run.cond = "True")
          /\ run.cond' # run.cond => (pc = "head" /\ run.cond' = BoolStr(sleep))
          /\ sleep' # sleep => run' = run
          /\ (pc = "inflight" /\ pc' # "inflight") =>
                 (run.result' \in Responses
                    /\ run' = Handle(run, run.result', verbose))]_vars

C8_Witness == pc = "inflight" /\ ~sleep /\ run.cond = "True"

\* C9: main exits with 0 exactly when a non-403 JSON response was received
\* and galaxy_wait returned True, and with 1 exactly when it returned False.
C9_ExitCodeIsReturnValue ==
    exit_code # None =>
        /\ exit_code = Some(0) <=> IsSuccess(result)
        /\ exit_code = Some(0) <=> ret = "True"
        /\ exit_code = Some(1) <=> ret = "False"

\* C10: with verbose false nothing is written to standard output, and the
\* notice is written to standard error once, at line 90 just before the
\* False return, and at no other point: never when True is returned.
C10_SilentUnlessTimedOut ==
    ~verbose =>
        /\ run.stdout = 0
        /\ run.stderr \in { 0, 1 }
        /\ run.stderr = 1 <=> (pc = "return_false" \/ ret = "False")
        /\ ret = "True" => run.stderr = 0

C10_Witness == ~verbose /\ ret = "False" /\ run.stderr = 1 /\ run.gets = 2

\* C11: with an api_key present the request target is galaxy_url, then
\* "/api/version", then "?", then the key unchanged; with api_key None it is
\* galaxy_url then "/api/version"; every GET of the call uses that target.
C11_UrlIsPlainConcatenation ==
    pc # "start" =>
        /\ api_key # None =>
               version_url = galaxy_url \o ApiVersionPath \o <<"?">> \o api_key[1]
        /\ api_key = None => version_url = galaxy_url \o ApiVersionPath
        /\ run.gets > 0 => run.url = version_url

\* C11 as amended: the "?" and the key are appended when the key is a
\* non-empty string; with api_key None or empty the target is galaxy_url
\* then "/api/version" and nothing after it.
C11_UrlIsConcatenationForNonEmptyKey ==
    pc # "start" =>
        /\ (api_key # None /\ Len(api_key[1]) > 0) =>
               /\ version_url =
                      galaxy_url \o ApiVersionPath \o <<"?">> \o api_key[1]
               /\ Len(version_url) =
                      Len(galaxy_url) + Len(ApiVersionPath) + 1 + Len(api_key[1])
        /\ (api_key = None \/ api_key = Some(<<>>)) =>
               /\ version_url = galaxy_url \o ApiVersionPath
               /\ Len(version_url) = Len(galaxy_url) + Len(ApiVersionPath)
        /\ run.gets > 0 => run.url = version_url
        /\ run.gets = 0 => run.url = <<>>

C11_Witness ==
    /\ api_key = Some(<<"k", "=", "v">>) /\ galaxy_url = <<"h", "/">>
    /\ run.gets = 3
    /\ run.url = <<"h", "/", "/", "a", "p", "i", "/", "v", "e", "r", "s", "i",
                   "o", "n", "?", "k", "=", "v">>

\* C12: every iteration performs one GET and one pause of one second, so a
\* call that has returned has paused as many times as it has issued GETs.
C12_PausesEqualGets ==
    pc = "done" => run.sleeps = DEFAULT_SLEEP_WAIT * run.gets

\* C12 as amended: every iteration performs one GET and at most one pause of
\* one second; the iteration that ends the call (a success, the timeout
\* exceeded, an exception) does not pause.  The pauses are one fewer than
\* the GETs from the GET of an iteration to its pause and when the call ends
\* inside an iteration, and as many as the GETs at the loop head and when
\* the loop is ended by the flag.
C12_PauseUnlessIterationEndsCall ==
    /\ run.gets - count \in { 0, 1 }
    /\ pc \in { "start", "head", "get" } =>
           run.sleeps = DEFAULT_SLEEP_WAIT * run.gets
    /\ pc \in { "inflight", "inc", "check", "sleep", "notice", "return_false",
                "raised" } =>
           run.sleeps = DEFAULT_SLEEP_WAIT * (run.gets - 1)
    /\ pc \in { "return_true", "done" } =>
           run.sleeps = DEFAULT_SLEEP_WAIT *
                            (IF run.cond = "False" THEN run.gets ELSE run.gets - 1)

C12_Witness ==
    /\ pc = "done" /\ ret = "True" /\ IsSuccess(result)
    /\ run.gets = 3 /\ run.sleeps = 2

\* C13: the value of verbose does not change the outcome: the call and
\* the mirror call (same parameters, outcomes and flag, verbose negated)
\* issue the same number of GETs and end the same way with the same return
\* value.
C13_VerboseDoesNotChangeOutcome ==
    /\ mirror.gets = run.gets
    /\ (Ended(run) /\ Ended(mirror)) =>
           (mirror.pc = pc /\ mirror.ret = ret)

\* C14: with timeout = N > 0 the call ends within N+1 iterations (it never
\* issues more than N+1 GETs nor counts beyond N+1); with timeout = 0 the
\* call ends only if a non-403 JSON response was received or the flag was
\* set false.
C14_EndsOnlyBySuccessCancelOrTimeout ==
    /\ timeout > 0 => (run.gets <= timeout + 1 /\ count <= timeout + 1)
    /\ (timeout = 0 /\ Ended(run)) => (IsSuccess(result) \/ ~sleep)

\* C15: a failed iteration goes GET, count += 1, timeout check, pause, flag
\* check, in that order.  The check of line 89 comes before the pause: the
\* notice and the False return are reached with no pause in their
\* iteration.  The flag is read again only after the pause: the loop head
\* is reached only from the pause (or the call), and with the flag set false
\* during the GET or the pause the call still goes through count += 1, the
\* check and the pause of that iteration.
C15_IterationOrder ==
    /\ []((pc \in { "notice", "return_false" } \/ ret = "False") =>
              run.sleeps = DEFAULT_SLEEP_WAIT * (run.gets - 1))
    /\ []((~sleep /\ pc \in { "inflight", "inc", "check", "sleep" }) =>
              run.cond = "True")
    /\ [][pc' # pc =>
            /\ (pc = "inflight" /\ IsFailure(result')) =>
                   (pc' = "inc" /\ count' = count /\ run.sleeps' = run.sleeps)
            /\ pc = "inc" =>
                   (pc' = "check" /\ count' = count + 1
                      /\ run.sleeps' = run.sleeps)
            /\ pc = "check" =>
                   /\ pc' = IF timeout # 0 /\ count > timeout
                            THEN "notice" ELSE "sleep"
                   /\ count' = count /\ run.sleeps' = run.sleeps
            /\ pc = "sleep" =>
                   (pc' = "head" /\ count' = count
                      /\ run.sleeps' = run.sleeps + DEFAULT_SLEEP_WAIT)
            /\ pc' = "head" => pc \in { "sleep", "start" }
            /\ run.cond' # run.cond => pc = "head"]_vars

C15_Witness ==
    /\ ~sleep /\ pc = "sleep" /\ run.cond = "True"
    /\ run.gets = 2 /\ count = 2 /\ run.sleeps = 1

C17_TimeoutBeatsCancel ==
    /\ []((pc = "done" /\ ret = "False") => run.stderr = 1)
    /\ []((timeout > 0 /\ count > timeout) =>
              /\ pc \in { "check", "notice", "return_false", "done" }
              /\ pc = "done" => ret = "False")
    /\ []((run.gets = 0 /\ (run.cond = "False" \/ (pc = "head" /\ ~sleep))) =>
              /\ count = 0 /\ run.stdout = 0 /\ run.stderr = 0
              /\ run.sleeps = 0
              /\ pc \in { "head", "return_true", "done" }
              /\ pc = "done" => ret = "True")
    /\ [][pc' # pc =>
            /\ (pc = "check" /\ TimedOut(run, timeout)) => pc' = "notice"
            /\ pc = "notice" =>
                   (pc' = "return_false" /\ run.stderr' = run.stderr + 1)
            /\ pc = "return_false" => (pc' = "done" /\ ret' = "False")
            /\ (pc = "head" /\ ~sleep) =>
                   (pc' = "return_true" /\ run.gets' = run.gets)
            /\ (pc = "return_true" /\ run.cond = "False") =>
                   (pc' = "done" /\ run.gets' = run.gets)]_vars

C17_Witness ==
    /\ ~sleep /\ run.cond = "True" /\ timeout = 2
    /\ pc = "done" /\ ret = "False" /\ run.stderr = 1 /\ run.gets = 3

\* A call that found the flag false at its first reading has returned.
C17_WitnessAlreadyFalse ==
    pc = "done" /\ run.gets = 0 /\ run.cond = "False" /\ count = 0

\* C18: the flag starts True and is changed only by cancel(), to False and
\* never back, in a step that changes nothing of the call; no step changes
\* galaxy_url, timeout, api_key or verbose, nor version_url once the call
\* built it; of the flag, the parameters, the target and count the loop
\* changes count alone, and count never decreases.
C18_LoopMutatesCountOnly ==
    /\ sleep = TRUE
    /\ [](~sleep => sleep_condition = "given")
    /\ [][/\ galaxy_url' = galaxy_url /\ timeout' = timeout
          /\ api_key' = api_key /\ verbose' = verbose
          /\ pc # "start" => version_url' = version_url
          /\ sleep' # sleep => (sleep /\ ~sleep' /\ run' = run)
          /\ run' # run => sleep' = sleep
          /\ count' >= count
          /\ count' # count => (pc = "inc" /\ count' = count + 1)]_vars

C18_Witness ==
    /\ ~sleep /\ count = 3 /\ pc = "sleep"
    /\ version_url = VersionUrl(galaxy_url, api_key)

=============================================================================
